---------------------------- MODULE Spec2Model ----------------------------
(***************************************************************************)
(* A model of the two scripts of the repository:                           *)
(*   query_all.py  the cursor-paginated fetch loop (module level code)     *)
(*   json2csv.py   convert_to_csv, the length-bounded cell packer          *)
(* Spec is the fetch loop against a server and a failure injector;         *)
(* PackSpec is convert_to_csv run on every bounded input.                  *)
(***************************************************************************)
EXTENDS Integers, Sequences, FiniteSets, TLC

(***************************************************************************)
(* Bounds of the model.                                                    *)
(***************************************************************************)
\* The largest collection the server holds.
MaxN == 5
\* Records per page.  The query asks for `first: 100`; the model serves
\* pages of PageSize records so that multi-page collections stay small.
PageSize == 2
\* The retry loop has no cap in the code; the model stops issuing requests
\* after MaxRequests of them.
MaxRequests == 6

VARIABLES
    \* ---- query_all.py, module level state ----
    after_cursor,     \* the cursor sent with the next request (None at start)
    has_next_page,    \* the loop condition
    nodes,            \* the accumulated records
    total_count,      \* Unbound until a page's pageInfo has been read
    pc,               \* "FETCHING" (in the while loop), "DONE" (loop left),
                      \* "CRASHED" (an exception left the script), "SAVED",
                      \* "IDLE" (the script is not run), "KEY" (get_api_key
                      \* is called), "PROMPT" (in its input loop)
    file,             \* nodes-id-url.json: NoFile or the list written
    \* ---- the environment of the fetch loop ----
    N,                \* the number of records the server holds
    requests,         \* page requests issued so far
    okRequests,       \* of them, those answered with a response
    slept,            \* calls of time.sleep so far
    outcome,          \* what the last iteration logged
    responsive,       \* every response so far was the page asked for
    \* ---- json2csv.py, convert_to_csv ----
    data,             \* the argument: the list of nodes
    length_limit,     \* the argument: the limit of a cell
    csv_lines,        \* the cells closed so far, escaped
    current_line,     \* the cell being filled, not yet escaped
    current_length,   \* the length counted for the cell being filled
    idx,              \* the position of the for loop in data
    ppc,              \* "IDLE", "LOOP" (in the for loop), "RETURNED"
    csv_data,         \* the string returned
    raw_lines,        \* history: each closed cell as it was before escaping
    \* ---- query_all.py, get_api_key ----
    flag,             \* args.apikey: the value of --apikey, or NoKey
    env,              \* os.getenv("OMNIVORE_API_KEY"), or NoKey
    apikey,           \* the key get_api_key returned, NoKey before
    prompts,          \* calls of input() so far
    \* ---- json2csv.py, main ----
    mpc,              \* "IDLE", "START", "READ" (the input is read),
                      \* "SAVED", "FAILED" (the except clause has run)
    csv_file,         \* nodes-id-url.csv: NoFile or its content
    reads             \* calls of read_json_file so far

fetchVars == <<after_cursor, has_next_page, nodes, total_count, pc, file,
               N, requests, okRequests, slept, outcome, responsive>>

packVars == <<data, length_limit, csv_lines, current_line, current_length,
              idx, ppc, csv_data, raw_lines>>

keyVars == <<flag, env, apikey, prompts>>

mainVars == <<mpc, csv_file, reads>>

vars == <<fetchVars, packVars, keyVars, mainVars>>

(***************************************************************************)
(* Values.                                                                 *)
(***************************************************************************)
\* Python's None for after_cursor.  The cursor of the i-th record is i.
None == 0
\* total_count before its first assignment (the name is not bound).
Unbound == -1
\* nodes-id-url.json before it is written.
NoFile == <<"no file">>

\* The exceptions `requests` raises for a failed request, one per handler.
TransportErrors == {"HTTPError", "ConnectionError", "Timeout", "RequestException"}

\* The number of pages of b records that a records fill.
Ceil(a, b) == (a + b - 1) \div b
Min(a, b) == IF a < b THEN a ELSE b
Last(s) == s[Len(s)]

(***************************************************************************)
(* The server.                                                             *)
(***************************************************************************)
\* One edge of a SearchSuccess: the record and the cursor that follows it.
Edge(i) == [cursor |-> i, node |-> i]

\* The records the server holds, in its order.
Collection(n) == [i \in 1..n |-> i]

\* The position a cursor resumes after.
Offset(cursor) == IF cursor = None THEN 0 ELSE cursor

\* The page of at most PageSize edges that follows `cursor`.
Page(cursor) ==
    [k \in 1..Min(PageSize, N - Offset(cursor)) |-> Edge(Offset(cursor) + k)]

\* The response of a server that answers the query as asked.
PageResponse(cursor) ==
    [hasEdges    |-> TRUE,
     edges       |-> Page(cursor),
     hasPageInfo |-> TRUE,
     hasNextPage |-> Offset(cursor) + PageSize < N,
     totalCount  |-> N]

\* The page that follows `cursor` with one edge malformed: edge j without its
\* `node`, or the last edge without its `cursor`.
MalformedPages(cursor) ==
    LET page == Page(cursor) IN
    { [page EXCEPT ![j] = [cursor |-> page[j].cursor]] : j \in 1..Len(page) }
    \cup { [page EXCEPT ![j] = [node |-> page[j].node]] : j \in {Len(page)} \ {0} }

\* The lists a response may carry as `edges`: the page, an empty list, or
\* the page with a malformed edge.
EdgeLists(cursor) == {Page(cursor), <<>>} \cup MalformedPages(cursor)

\* Every payload shape of data.search the loop can be handed: `edges` present
\* (one of EdgeLists) or missing, `pageInfo` present or missing.
ServerResponses(cursor) ==
    { [hasEdges    |-> he,
       edges       |-> IF he THEN es ELSE <<>>,
       hasPageInfo |-> hp,
       hasNextPage |-> hp /\ more,
       totalCount  |-> N] :
        he \in BOOLEAN, es \in EdgeLists(cursor),
        hp \in BOOLEAN, more \in BOOLEAN }

(***************************************************************************)
(* query_all.py: the loop body.                                            *)
(***************************************************************************)
\* Lines 135-136: the number of edges whose node is appended before the loop
\* ends or edge["node"] raises KeyError.
Appended(edges) ==
    LET bad == {k \in 1..Len(edges) : "node" \notin DOMAIN edges[k]}
    IN IF bad = {} THEN Len(edges)
       ELSE (CHOOSE k \in bad : \A m \in bad : k <= m) - 1

\* Lines 134-137: append every node, then take the last edge's cursor.
\* edge["node"] and [-1]["cursor"] raise KeyError on an edge without the
\* field; data["edges"][-1] raises IndexError on an empty list.  What was
\* appended before an exception stays appended.
ConsumeEdges(resp) ==
    IF ~resp.hasEdges
    THEN [nodes |-> nodes, after_cursor |-> after_cursor, raised |-> "none"]
    ELSE LET edges == resp.edges
             grown == nodes \o [k \in 1..Appended(edges) |-> edges[k].node]
         IN IF Appended(edges) < Len(edges)
            THEN [nodes |-> grown, after_cursor |-> after_cursor,
                  raised |-> "KeyError"]
            ELSE IF edges = <<>>
            THEN [nodes |-> grown, after_cursor |-> after_cursor,
                  raised |-> "IndexError"]
            ELSE IF "cursor" \notin DOMAIN Last(edges)
            THEN [nodes |-> grown, after_cursor |-> after_cursor,
                  raised |-> "KeyError"]
            ELSE [nodes        |-> grown,
                  after_cursor |-> Last(edges).cursor,
                  raised       |-> "none"]

\* Lines 132-140: the try block on a response that passed raise_for_status.
\* data["pageInfo"] raises KeyError when the field is missing.
TryBlock(resp) ==
    LET e == ConsumeEdges(resp) IN
    IF e.raised # "none"
    THEN [nodes |-> e.nodes, after_cursor |-> e.after_cursor,
          has_next_page |-> has_next_page, total_count |-> total_count,
          raised |-> e.raised]
    ELSE IF ~resp.hasPageInfo
    THEN [nodes |-> e.nodes, after_cursor |-> e.after_cursor,
          has_next_page |-> has_next_page, total_count |-> total_count,
          raised |-> "KeyError"]
    ELSE [nodes |-> e.nodes, after_cursor |-> e.after_cursor,
          has_next_page |-> resp.hasNextPage, total_count |-> resp.totalCount,
          raised |-> "none"]

\* Lines 152-155 and the loop test of line 125: the finally clause prints
\* total_count, which raises NameError while the name is unbound (the sleep is
\* then not reached and the exception leaves the script); otherwise it sleeps
\* and the loop goes on while has_next_page.
Finally(tc, more) ==
    IF tc = Unbound
    THEN pc' = "CRASHED" /\ slept' = slept
    ELSE /\ pc' = IF more THEN "FETCHING" ELSE "DONE"
         /\ slept' = slept + 1

\* Lines 128-129 raise: the matching handler of lines 142-149 logs the error.
RequestFails(exc) ==
    /\ pc = "FETCHING"
    /\ requests < MaxRequests
    /\ requests' = requests + 1
    /\ outcome' = exc
    /\ Finally(total_count, has_next_page)
    /\ UNCHANGED <<after_cursor, has_next_page, nodes, total_count, file,
                   N, okRequests, responsive>>
    /\ UNCHANGED <<packVars, keyVars, mainVars>>

\* Lines 128-140 with a response whose status is not an error, the handler of
\* line 150 for what the try block raises, and the finally clause.
ResponseReceived(resp) ==
    /\ pc = "FETCHING"
    /\ requests < MaxRequests
    /\ requests' = requests + 1
    /\ okRequests' = okRequests + 1
    /\ responsive' = (responsive /\ resp = PageResponse(after_cursor))
    /\ LET t == TryBlock(resp) IN
        /\ nodes' = t.nodes
        /\ after_cursor' = t.after_cursor
        /\ has_next_page' = t.has_next_page
        /\ total_count' = t.total_count
        /\ outcome' = IF t.raised = "none" THEN "page" ELSE t.raised
        /\ Finally(t.total_count, t.has_next_page)
    /\ UNCHANGED <<file, N>>
    /\ UNCHANGED <<packVars, keyVars, mainVars>>

\* Lines 158-164: the loop is left, the records are written.
SaveNodes ==
    /\ pc = "DONE"
    /\ file' = nodes
    /\ pc' = "SAVED"
    /\ UNCHANGED <<after_cursor, has_next_page, nodes, total_count,
                   N, requests, okRequests, slept, outcome, responsive>>
    /\ UNCHANGED <<packVars, keyVars, mainVars>>

(***************************************************************************)
(* query_all.py: get_api_key.  A key is a sequence of characters.          *)
(***************************************************************************)
\* The most calls of input() the model follows.
MaxPrompts == 2

\* Python's None for a flag or a variable that is not set.
NoKey == <<"None">>

HexDigits == {"0", "1", "2", "3", "4", "5", "6", "7", "8", "9",
              "a", "b", "c", "d", "e", "f", "A", "B", "C", "D", "E", "F"}

\* n times the character c.
Repeat(n, c) == [i \in 1..n |-> c]

\* 01234567-aaaa-FFFF-9999-bbbbbbbbbbbb
GoodKey ==
    <<"0", "1", "2", "3", "4", "5", "6", "7">> \o <<"-">> \o Repeat(4, "a")
        \o <<"-">> \o Repeat(4, "F") \o <<"-">> \o Repeat(4, "9")
        \o <<"-">> \o Repeat(12, "b")

\* The keys the model supplies: a key of the format, the same key followed by
\* a newline, the same key with a letter that is no hexadecimal digit, and
\* the empty string.
GoodKeyNewline == GoodKey \o <<"\n">>
BadKey == [GoodKey EXCEPT ![1] = "g"]
EmptyKey == <<>>

\* What --apikey or OMNIVORE_API_KEY may hold.
SuppliedKeys == {NoKey, EmptyKey, GoodKey, GoodKeyNewline, BadKey}

\* What input() may return: a line without its newline.
TypedKeys == {EmptyKey, GoodKey, BadKey}

\* Python's truth value of a key: None and '' are false.
Truthy(key) == key # NoKey /\ key # EmptyKey

\* Lines 40-42: the 8-4-4-4-12 groups of hexadecimal digits of the pattern,
\* over the whole of s.
MatchesGroups(s) ==
    /\ Len(s) = 36
    /\ \A i \in 1..36 :
          IF i \in {9, 14, 19, 24} THEN s[i] = "-" ELSE s[i] \in HexDigits

\* Lines 38-48: apikey_pattern.match(api_key).  The `$` of the pattern matches
\* at the end of the string and also just before a newline that ends it.
has_valid_api_key_format(api_key) ==
    \/ MatchesGroups(api_key)
    \/ /\ api_key # <<>>
       /\ Last(api_key) = "\n"
       /\ MatchesGroups(SubSeq(api_key, 1, Len(api_key) - 1))

\* Lines 51-62: the flag, else the environment variable; a key that is set
\* and passes the check is returned, anything else leads to the prompt.
GetApiKey ==
    /\ pc = "KEY"
    /\ LET api_key == IF Truthy(flag) THEN flag ELSE env IN
        IF Truthy(api_key) /\ has_valid_api_key_format(api_key)
        THEN apikey' = api_key /\ pc' = "FETCHING"
        ELSE apikey' = apikey /\ pc' = "PROMPT"
    /\ UNCHANGED <<after_cursor, has_next_page, nodes, total_count, file,
                   N, requests, okRequests, slept, outcome, responsive>>
    /\ UNCHANGED <<flag, env, prompts>>
    /\ UNCHANGED <<packVars, mainVars>>

\* Lines 65-71: one pass of the input loop with the line typed.
PromptKey(typed) ==
    /\ pc = "PROMPT"
    /\ prompts < MaxPrompts
    /\ prompts' = prompts + 1
    /\ IF has_valid_api_key_format(typed)
       THEN apikey' = typed /\ pc' = "FETCHING"
       ELSE apikey' = apikey /\ pc' = "PROMPT"
    /\ UNCHANGED <<after_cursor, has_next_page, nodes, total_count, file,
                   N, requests, okRequests, slept, outcome, responsive>>
    /\ UNCHANGED <<flag, env>>
    /\ UNCHANGED <<packVars, mainVars>>

\* Line 66: input() raises EOFError when the standard input has ended; the
\* exception leaves the script.
PromptEnds ==
    /\ pc = "PROMPT"
    /\ prompts < MaxPrompts
    /\ prompts' = prompts + 1
    /\ pc' = "CRASHED"
    /\ UNCHANGED <<after_cursor, has_next_page, nodes, total_count, file,
                   N, requests, okRequests, slept, outcome, responsive>>
    /\ UNCHANGED <<flag, env, apikey>>
    /\ UNCHANGED <<packVars, mainVars>>

\* get_api_key has returned the key given with --apikey.
KeyGiven ==
    /\ flag = GoodKey
    /\ env = NoKey
    /\ apikey = GoodKey
    /\ prompts = 0

\* query_all.py is not run.
KeyIdle ==
    /\ flag = NoKey
    /\ env = NoKey
    /\ apikey = NoKey
    /\ prompts = 0

\* json2csv.py is not run.
MainIdle ==
    /\ mpc = "IDLE"
    /\ csv_file = NoFile
    /\ reads = 0

\* Lines 111-118, for every collection the server may hold.
FetchInit ==
    /\ after_cursor = None
    /\ has_next_page = TRUE
    /\ nodes = <<>>
    /\ total_count = Unbound
    /\ pc = "FETCHING"
    /\ file = NoFile
    /\ N \in 0..MaxN
    /\ requests = 0
    /\ okRequests = 0
    /\ slept = 0
    /\ outcome = "none"
    /\ responsive = TRUE

\* convert_to_csv is not running.
PackIdle ==
    /\ data = <<>>
    /\ length_limit = 0
    /\ csv_lines = <<>>
    /\ current_line = <<>>
    /\ current_length = 0
    /\ idx = 1
    /\ ppc = "IDLE"
    /\ csv_data = <<>>
    /\ raw_lines = <<>>

Init == FetchInit /\ PackIdle /\ KeyGiven /\ MainIdle

Next ==
    \/ \E exc \in TransportErrors : RequestFails(exc)
    \/ \E resp \in ServerResponses(after_cursor) : ResponseReceived(resp)
    \/ SaveNodes

Spec == Init /\ [][Next]_vars

\* The script from line 120: get_api_key is called with every flag and every
\* environment variable of SuppliedKeys; the server holds no record, or one
\* record more than a page.
KeyInit ==
    /\ after_cursor = None
    /\ has_next_page = TRUE
    /\ nodes = <<>>
    /\ total_count = Unbound
    /\ pc = "KEY"
    /\ file = NoFile
    /\ N \in {0, PageSize + 1}
    /\ requests = 0
    /\ okRequests = 0
    /\ slept = 0
    /\ outcome = "none"
    /\ responsive = TRUE
    /\ flag \in SuppliedKeys
    /\ env \in SuppliedKeys
    /\ apikey = NoKey
    /\ prompts = 0
    /\ PackIdle
    /\ MainIdle

KeyNext ==
    \/ GetApiKey
    \/ \E typed \in TypedKeys : PromptKey(typed)
    \/ PromptEnds
    \/ Next

KeySpec == KeyInit /\ [][KeyNext]_vars

(***************************************************************************)
(* json2csv.py: convert_to_csv.  A string is a sequence of characters.     *)
(***************************************************************************)
\* The longest input list and the largest length_limit the model tries.
MaxRecords == 3
MaxLimit == 18

Quote == "\""

\* The nodes the model packs, each named by its Python literal.
Nodes == {"{}", "{'': 1}", "{'a': 1, 'b': 2}"}

\* json.dumps(node), with the default separators ", " and ": ".
Dumps(node) ==
    CASE node = "{}" ->
            <<"{", "}">>
      [] node = "{'': 1}" ->
            <<"{", Quote, Quote, ":", " ", "1", "}">>
      [] node = "{'a': 1, 'b': 2}" ->
            <<"{", Quote, "a", Quote, ":", " ", "1", ",", " ",
              Quote, "b", Quote, ":", " ", "2", "}">>

\* s.replace(' ', '')
StripSpaces(s) == SelectSeq(s, LAMBDA c : c # " ")

\* s.replace('"', '""')
RECURSIVE DoubleQuotes(_)
DoubleQuotes(s) ==
    IF s = <<>> THEN <<>>
    ELSE (IF Head(s) = Quote THEN <<Quote, Quote>> ELSE <<Head(s)>>)
             \o DoubleQuotes(Tail(s))

\* A plausible slip of lines 49 and 59: the quotes are left single.
EscapeSpacesOnly(line) == StripSpaces(line)

\* Lines 49 and 59: what is appended to csv_lines for a closed cell.
Escape(line) == DoubleQuotes(StripSpaces(line))

\* A plausible slip of line 48: the length already in the cell is forgotten.
OverflowsAlone(node_str) == Len(node_str) > length_limit

\* A plausible slip of line 48: `>=` for `>`.
OverflowsAtLimit(node_str) == current_length + Len(node_str) >= length_limit

\* Line 48: the node does not fit the cell being filled.
Overflows(node_str) == current_length + Len(node_str) > length_limit

\* A plausible slip of lines 53-55: the separator is left out.
JoinNoSeparator(line, node_str) == line \o node_str

\* Lines 53-55: the node joins the cell being filled.
Join(line, node_str) ==
    IF line # <<>> THEN line \o <<",">> \o node_str ELSE node_str

\* '","'.join(lines)
RECURSIVE JoinCells(_)
JoinCells(lines) ==
    IF lines = <<>> THEN <<>>
    ELSE IF Len(lines) = 1 THEN lines[1]
    ELSE lines[1] \o <<Quote, ",", Quote>> \o JoinCells(Tail(lines))

\* A plausible slip of line 61: each cell is quoted on its own, so that no
\* cell gives no quotes.
RECURSIVE DocumentPerCell(_)
DocumentPerCell(lines) ==
    IF lines = <<>> THEN <<>>
    ELSE <<Quote>> \o lines[1] \o <<Quote>>
            \o (IF Len(lines) = 1 THEN <<>> ELSE <<",">>)
            \o DocumentPerCell(Tail(lines))

\* Line 61: the string returned, the joined cells in one pair of quotes.
Document(lines) == <<Quote>> \o JoinCells(lines) \o <<Quote>>

\* Lines 46-56: one pass of the for loop.
PackNode ==
    /\ ppc = "LOOP"
    /\ idx <= Len(data)
    /\ LET node_str == Dumps(data[idx]) IN
        IF Overflows(node_str)
        THEN /\ csv_lines' = Append(csv_lines, Escape(current_line))
             /\ raw_lines' = Append(raw_lines, current_line)
             /\ current_line' = node_str
             /\ current_length' = Len(node_str)
        ELSE /\ current_line' = Join(current_line, node_str)
             /\ current_length' = current_length + Len(node_str)
             /\ UNCHANGED <<csv_lines, raw_lines>>
    /\ idx' = idx + 1
    /\ UNCHANGED <<data, length_limit, ppc, csv_data>>
    /\ UNCHANGED <<fetchVars, keyVars, mainVars>>

\* Lines 58-61: the loop is over; the last cell is closed if it holds
\* anything, and the cells are joined and quoted.
PackReturn ==
    /\ ppc = "LOOP"
    /\ idx > Len(data)
    /\ LET lines == IF current_line # <<>>
                    THEN Append(csv_lines, Escape(current_line))
                    ELSE csv_lines
       IN /\ csv_lines' = lines
          /\ csv_data' = Document(lines)
    /\ raw_lines' = IF current_line # <<>>
                    THEN Append(raw_lines, current_line)
                    ELSE raw_lines
    /\ ppc' = "RETURNED"
    /\ UNCHANGED <<data, length_limit, current_line, current_length, idx>>
    /\ UNCHANGED <<fetchVars, keyVars, mainVars>>

\* The fetch script is not running.
FetchIdle ==
    /\ after_cursor = None
    /\ has_next_page = TRUE
    /\ nodes = <<>>
    /\ total_count = Unbound
    /\ pc = "IDLE"
    /\ file = NoFile
    /\ N = 0
    /\ requests = 0
    /\ okRequests = 0
    /\ slept = 0
    /\ outcome = "none"
    /\ responsive = TRUE

\* Lines 40-44: convert_to_csv is called on any list of at most MaxRecords
\* nodes with any limit up to MaxLimit.
PackInit ==
    /\ FetchIdle
    /\ KeyIdle
    /\ MainIdle
    /\ data \in UNION {[1..n -> Nodes] : n \in 0..MaxRecords}
    /\ length_limit \in 0..MaxLimit
    /\ csv_lines = <<>>
    /\ current_line = <<>>
    /\ current_length = 0
    /\ idx = 1
    /\ ppc = "LOOP"
    /\ csv_data = <<>>
    /\ raw_lines = <<>>

PackNext == PackNode \/ PackReturn

PackSpec == PackInit /\ [][PackNext]_vars

(***************************************************************************)
(* json2csv.py: main.  nodes-id-url.json is the variable file, which      *)
(* query_all.py writes; nodes-id-url.csv is csv_file.                      *)
(***************************************************************************)
\* Line 29.
LENGTH_LIMIT == 30000

\* A nodes-id-url.json that open() or json.load() cannot read.
Unreadable == <<"not json">>

\* A nodes-id-url.csv left by an earlier run.
OldCsv == <<"o", "l", "d">>

\* Variant of lines 83-84: the handler leaves an empty nodes-id-url.csv
\* behind.
ReadFailsLeavesEmptyFile ==
    /\ mpc' = "FAILED"
    /\ csv_file' = <<>>

\* Lines 33-34 or 36-37 raise, lines 83-84 catch: the message is printed and
\* main returns.
ReadFails ==
    /\ mpc' = "FAILED"
    /\ csv_file' = csv_file

\* Line 74 with lines 31-38: read_json_file.
MainRead ==
    /\ mpc = "START"
    /\ reads' = reads + 1
    /\ IF file \in {NoFile, Unreadable}
       THEN ReadFails /\ data' = data
       ELSE /\ data' = file
            /\ mpc' = "READ"
            /\ csv_file' = csv_file
    /\ UNCHANGED <<length_limit, csv_lines, current_line, current_length,
                   idx, ppc, csv_data, raw_lines>>
    /\ UNCHANGED <<fetchVars, keyVars>>

\* Line 77 with lines 40-44: convert_to_csv is called with the default
\* length_limit.
MainConvert ==
    /\ mpc = "READ"
    /\ ppc = "IDLE"
    /\ length_limit' = LENGTH_LIMIT
    /\ csv_lines' = <<>>
    /\ current_line' = <<>>
    /\ current_length' = 0
    /\ idx' = 1
    /\ ppc' = "LOOP"
    /\ raw_lines' = <<>>
    /\ UNCHANGED <<data, csv_data>>
    /\ UNCHANGED <<fetchVars, keyVars, mainVars>>

\* Line 80 with lines 63-66: save_csv_file writes the document.
MainSave ==
    /\ mpc = "READ"
    /\ ppc = "RETURNED"
    /\ csv_file' = csv_data
    /\ mpc' = "SAVED"
    /\ UNCHANGED reads
    /\ UNCHANGED <<fetchVars, packVars, keyVars>>

\* Lines 65-66 raise, lines 83-84 catch: open() failed and the file is as it
\* was, or write() failed and the file is there, empty.
MainSaveFails ==
    /\ mpc = "READ"
    /\ ppc = "RETURNED"
    /\ csv_file' \in {csv_file, <<>>}
    /\ mpc' = "FAILED"
    /\ UNCHANGED reads
    /\ UNCHANGED <<fetchVars, packVars, keyVars>>

\* python json2csv.py: main is called with nodes-id-url.json missing,
\* unreadable or holding a list of at most MaxRecords nodes, and
\* nodes-id-url.csv missing or left by an earlier run.
MainInit ==
    /\ after_cursor = None
    /\ has_next_page = TRUE
    /\ nodes = <<>>
    /\ total_count = Unbound
    /\ pc = "IDLE"
    /\ file \in {NoFile, Unreadable}
                 \cup UNION {[1..n -> Nodes] : n \in 0..MaxRecords}
    /\ N = 0
    /\ requests = 0
    /\ okRequests = 0
    /\ slept = 0
    /\ outcome = "none"
    /\ responsive = TRUE
    /\ KeyIdle
    /\ PackIdle
    /\ mpc = "START"
    /\ csv_file \in {NoFile, OldCsv}
    /\ reads = 0

\* One run of either script: the fetch loop of query_all.py, or main of
\* json2csv.py.
RunInit == Init \/ MainInit

RunNext ==
    \/ Next
    \/ MainRead
    \/ MainConvert
    \/ PackNode
    \/ PackReturn
    \/ MainSave
    \/ MainSaveFails

RunSpec == RunInit /\ [][RunNext]_vars

(***************************************************************************)
(* Reading a cell back: the records a cell holds.  These operators read    *)
(* the output of convert_to_csv for the statements below; the function     *)
(* itself never parses a cell.                                             *)
(***************************************************************************)
\* Un-escaping: every doubled quote becomes one quote.
RECURSIVE HalveQuotes(_)
HalveQuotes(s) ==
    IF s = <<>> THEN <<>>
    ELSE IF Head(s) = Quote /\ Len(s) >= 2 /\ s[2] = Quote
    THEN <<Quote>> \o HalveQuotes(SubSeq(s, 3, Len(s)))
    ELSE <<Head(s)>> \o HalveQuotes(Tail(s))

\* The pieces of s from position i on, split at the commas that are neither
\* inside braces or brackets nor inside a JSON string; `piece` is the piece
\* being read.
RECURSIVE SplitFrom(_, _, _, _, _)
SplitFrom(s, i, depth, inString, piece) ==
    IF i > Len(s) THEN <<piece>>
    ELSE LET c == s[i] IN
         IF inString
         THEN SplitFrom(s, i + 1, depth, c # Quote, Append(piece, c))
         ELSE IF c = Quote
         THEN SplitFrom(s, i + 1, depth, TRUE, Append(piece, c))
         ELSE IF c \in {"{", "["}
         THEN SplitFrom(s, i + 1, depth + 1, FALSE, Append(piece, c))
         ELSE IF c \in {"}", "]"}
         THEN SplitFrom(s, i + 1, depth - 1, FALSE, Append(piece, c))
         ELSE IF c = "," /\ depth = 0
         THEN <<piece>> \o SplitFrom(s, i + 1, 0, FALSE, <<>>)
         ELSE SplitFrom(s, i + 1, depth, FALSE, Append(piece, c))

\* The records of a cell's content: none for an empty cell.
SplitTopLevel(s) == IF s = <<>> THEN <<>> ELSE SplitFrom(s, 1, 0, FALSE, <<>>)

RECURSIVE Flatten(_)
Flatten(ss) == IF ss = <<>> THEN <<>> ELSE Head(ss) \o Flatten(Tail(ss))

RECURSIVE SumLen(_)
SumLen(ss) == IF ss = <<>> THEN 0 ELSE Len(Head(ss)) + SumLen(Tail(ss))

\* The cells of a document as a reader of quoted, comma-separated text takes
\* them, from position i on: a cell opens at a quote, a doubled quote inside
\* it is one quote of its content, and a single quote closes it.
RECURSIVE ReadCells(_, _, _, _)
ReadCells(s, i, inCell, cell) ==
    IF i > Len(s) THEN (IF inCell THEN <<cell>> ELSE <<>>)
    ELSE IF ~inCell
    THEN ReadCells(s, i + 1, s[i] = Quote, <<>>)
    ELSE IF s[i] = Quote /\ i < Len(s) /\ s[i + 1] = Quote
    THEN ReadCells(s, i + 2, TRUE, Append(cell, Quote))
    ELSE IF s[i] = Quote
    THEN <<cell>> \o ReadCells(s, i + 1, FALSE, <<>>)
    ELSE ReadCells(s, i + 1, TRUE, Append(cell, s[i]))

\* The cells of the document returned, un-escaped.
DocumentCells == ReadCells(csv_data, 1, FALSE, <<>>)

\* The records read from the k-th cell of the output, un-escaped.
CellRecords(k) == SplitTopLevel(HalveQuotes(csv_lines[k]))

\* The records read from all the cells, in output order.
ReadBack == Flatten([k \in 1..Len(csv_lines) |-> CellRecords(k)])

\* The records of the k-th closed cell as it was before escaping.
RawRecords(k) == SplitTopLevel(raw_lines[k])

\* The k-th closed cell holds one record, itself longer than the limit.
SingleOversized(k) ==
    Len(RawRecords(k)) = 1 /\ Len(RawRecords(k)[1]) > length_limit

\* The number of records read from the cells before the k-th.
RecordsBefore(k) == Len(Flatten([j \in 1..(k - 1) |-> CellRecords(j)]))

\* The cell that the i-th input record is read from (0: none).
CellOf(i) ==
    LET ks == {k \in 1..Len(csv_lines) :
                  RecordsBefore(k) < i /\ i <= RecordsBefore(k + 1)}
    IN IF ks = {} THEN 0 ELSE CHOOSE k \in ks : TRUE

\* The serialized length of the input records from..to.
RECURSIVE DumpsLen(_, _)
DumpsLen(from, to) ==
    IF from > to THEN 0 ELSE Len(Dumps(data[from])) + DumpsLen(from + 1, to)

(***************************************************************************)
(* convert_to_csv: the statements checked.                                 *)
(***************************************************************************)
\* C7 as stated: every closed cell, unless it holds a single record longer
\* than length_limit, has content (records and the commas joining them) of
\* length at most length_limit.
C7_ContentWithinLimit ==
    \A k \in 1..Len(raw_lines) :
        SingleOversized(k) \/ Len(raw_lines[k]) <= length_limit

\* C7 as amended: every closed cell, unless it holds a single record longer
\* than length_limit, holds records whose serialized lengths sum to at most
\* length_limit; the commas joining them are not counted.
C7_RecordLengthsWithinLimit ==
    \A k \in 1..Len(raw_lines) :
        SingleOversized(k) \/ SumLen(RawRecords(k)) <= length_limit

\* A cell of two records that fills the limit exactly, so that its content
\* with the comma is longer than the limit.
C7_Witness ==
    /\ ppc = "RETURNED"
    /\ \E k \in 1..Len(raw_lines) :
          /\ Len(RawRecords(k)) >= 2
          /\ SumLen(RawRecords(k)) = length_limit
          /\ Len(raw_lines[k]) > length_limit

\* C8: a cell is closed only when it holds something, so no cell of the
\* output is empty, and a single record longer than the limit yields exactly
\* one cell, holding that record.
C8_NoEmptyCell ==
    /\ \A k \in 1..Len(raw_lines) : raw_lines[k] # <<>>
    /\ (ppc = "RETURNED" /\ Len(data) = 1
            /\ Len(Dumps(data[1])) > length_limit)
        => raw_lines = <<Dumps(data[1])>>

\* C9 as stated: un-escaping the cells of the output and reading the records
\* of each in order gives exactly the serialized input records, in order.
C9_ReadBackExact ==
    ppc = "RETURNED" => ReadBack = [i \in 1..Len(data) |-> Dumps(data[i])]

\* C9 as amended: un-escaping the cells of the output and reading the records
\* of each in order gives the serialized input records with their spaces
\* removed, each once and in its original position.
C9_ReadBackWithoutSpaces ==
    ppc = "RETURNED" =>
        ReadBack = [i \in 1..Len(data) |-> StripSpaces(Dumps(data[i]))]

\* Three records in two cells, one of them shared, one record with spaces.
C9_Witness ==
    /\ ppc = "RETURNED"
    /\ Len(data) = 3
    /\ \E i \in 1..3 : StripSpaces(Dumps(data[i])) # Dumps(data[i])
    /\ \E k \in 1..Len(csv_lines) : Len(CellRecords(k)) = 2
    /\ \E k \in 1..Len(csv_lines) : Len(CellRecords(k)) = 1

\* C10: in the output, records i and i+1 are in different cells exactly when
\* the serialized lengths of the records of i's cell up to i, plus the length
\* of record i+1, exceed length_limit.
C10_BoundaryIffOverflow ==
    ppc = "RETURNED" =>
        \A i \in 1..(Len(data) - 1) :
            LET first == RecordsBefore(CellOf(i)) + 1 IN
            /\ CellOf(i) # 0
            /\ CellOf(i + 1) # 0
            /\ (CellOf(i) # CellOf(i + 1))
                  <=> (DumpsLen(first, i) + Len(Dumps(data[i + 1])) > length_limit)

\* Two records that each fit but do not fit together are in two cells of one
\* record each.
C10_Witness ==
    /\ ppc = "RETURNED"
    /\ Len(data) = 2
    /\ Len(Dumps(data[1])) <= length_limit
    /\ Len(Dumps(data[2])) <= length_limit
    /\ Len(Dumps(data[1])) + Len(Dumps(data[2])) > length_limit
    /\ Len(csv_lines) = 2
    /\ Len(CellRecords(1)) = 1
    /\ Len(CellRecords(2)) = 1

\* C11: for an empty input the document returned is one opening and one
\* closing quote, which reads as exactly one cell, an empty one.
C11_EmptyInputOneEmptyCell ==
    (ppc = "RETURNED" /\ data = <<>>) =>
        /\ csv_data = <<Quote, Quote>>
        /\ DocumentCells = << <<>> >>

\* convert_to_csv has returned for the empty list.
C11_Witness ==
    ppc = "RETURNED" /\ data = <<>> /\ Len(csv_data) = 2
\* The number of characters of s that are c.
Count(s, c) == Len(SelectSeq(s, LAMBDA x : x = c))

\* C12: every cell of the output is its content before escaping with every
\* space removed and every quote doubled, and nothing else changed; halving
\* the doubled quotes gives back that content without its spaces.
C12_EscapingDoublesQuotesDropsSpaces ==
    \A k \in 1..Len(csv_lines) :
        /\ Count(csv_lines[k], " ") = 0
        /\ Count(csv_lines[k], Quote) = 2 * Count(raw_lines[k], Quote)
        /\ SelectSeq(csv_lines[k], LAMBDA x : x # Quote)
              = SelectSeq(raw_lines[k], LAMBDA x : x \notin {Quote, " "})
        /\ HalveQuotes(csv_lines[k]) = StripSpaces(raw_lines[k])

\* A closed cell whose content had spaces and two quotes next to each other.
C12_Witness ==
    \E k \in 1..Len(csv_lines) :
        /\ Count(raw_lines[k], " ") > 0
        /\ \E j \in 1..(Len(raw_lines[k]) - 1) :
              raw_lines[k][j] = Quote /\ raw_lines[k][j + 1] = Quote
        /\ Len(SplitTopLevel(raw_lines[k])) >= 2
\* C19: wherever it stands in the input, a record longer than length_limit
\* is read from a cell that holds it and nothing else, and the packing always
\* has a next step until it has returned.
C19_OversizedRecordAlone ==
    /\ ppc = "LOOP" => ENABLED PackNext
    /\ ppc = "RETURNED" =>
          \A i \in 1..Len(data) :
              Len(Dumps(data[i])) > length_limit =>
                  /\ CellOf(i) # 0
                  /\ CellRecords(CellOf(i)) = <<StripSpaces(Dumps(data[i]))>>

\* An oversized record between two records that fit.
C19_Witness ==
    /\ ppc = "RETURNED"
    /\ Len(data) = 3
    /\ Len(Dumps(data[1])) <= length_limit
    /\ Len(Dumps(data[2])) > length_limit
    /\ Len(Dumps(data[3])) <= length_limit
    /\ Len(csv_lines) = 3

(***************************************************************************)
(* The fetch loop: the statements checked.                                 *)
(***************************************************************************)
\* The run has ended: the script has exited, with or without its output.
Ended == pc \in {"CRASHED", "SAVED"}

\* C1: served by a responsive server, under any schedule of transient
\* failures, the loop is left after exactly ceil(N / PageSize) answered page
\* requests with nodes holding the N records in server order; the run never
\* ends otherwise.
C1_ExactPagesAndRecords ==
    responsive =>
        /\ pc # "CRASHED"
        /\ pc \in {"DONE", "SAVED"} =>
              /\ okRequests = Ceil(N, PageSize)
              /\ nodes = Collection(N)

\* C2: a response with hasNextPage true and an empty edges list ends the
\* loop: the step that receives it leaves FETCHING, so that no further
\* request is issued.
C2_EmptyPageEndsLoop ==
    [][\A resp \in ServerResponses(after_cursor) :
          (/\ resp.hasEdges /\ resp.edges = <<>>
           /\ resp.hasPageInfo /\ resp.hasNextPage
           /\ ResponseReceived(resp))
          => pc' # "FETCHING"]_vars

\* C3: a transient failure at any iteration, the first included, is only
\* logged: the loop stays in FETCHING, sleeps once, and changes no data.
C3_TransientFailureOnlyLogged ==
    [][(\E exc \in TransportErrors : RequestFails(exc))
          => /\ pc' = "FETCHING"
             /\ slept' = slept + 1
             /\ nodes' = nodes]_vars

\* C4: on a multi-page collection a run with transient failures ends with the
\* same records written as the run without failures, which writes the
\* collection.
C4_SameOutputAsFailureFreeRun ==
    (N > PageSize /\ responsive /\ Ended) => file = Collection(N)

\* C5: an iteration that fails (a transport error, or a response the try block
\* raises on) leaves the cursor as it was.
C5_FailureKeepsCursor ==
    [][(requests' = requests + 1 /\ outcome' # "page")
          => after_cursor' = after_cursor]_vars

\* C6: a response without an edges field, with or without pageInfo, ends the
\* collection: the loop goes to DONE with the records it has.
C6_NoEdgesEndsLoop ==
    [][\A resp \in ServerResponses(after_cursor) :
          (~resp.hasEdges /\ ResponseReceived(resp))
          => (pc' = "DONE" /\ nodes' = nodes)]_vars

\* The cursor the server issued with a record: that of the record's edge.
CursorOf(node) == Edge(node).cursor

\* The nodes of the edges of a response that carry one.
NodesOf(resp) ==
    LET with == SelectSeq(resp.edges, LAMBDA e : "node" \in DOMAIN e)
    IN [k \in 1..Len(with) |-> with[k].node]

\* No record is twice in the list.
NoDuplicates(s) == \A i, j \in 1..Len(s) : s[i] = s[j] => i = j

\* C16: whenever a request is about to be issued, the cursor is absent if no
\* record has been stored yet and is otherwise the cursor of the last record
\* stored.
C16_CursorIsLastStoredRecord ==
    pc = "FETCHING" =>
        after_cursor = IF nodes = <<>> THEN None ELSE CursorOf(Last(nodes))

\* C17: an iteration either appends every node of the page received and moves
\* the cursor to the page's last edge, or appends nothing; hence no record is
\* ever stored twice.
C17_PageAllOrNothing ==
    [][\A resp \in ServerResponses(after_cursor) :
          ResponseReceived(resp) =>
              /\ \/ /\ resp.hasEdges /\ resp.edges # <<>>
                    /\ nodes' = nodes \o NodesOf(resp)
                    /\ Len(NodesOf(resp)) = Len(resp.edges)
                    /\ "cursor" \in DOMAIN Last(resp.edges)
                    /\ after_cursor' = Last(resp.edges).cursor
                 \/ nodes' = nodes
              /\ NoDuplicates(nodes')]_vars

\* C18: every iteration, successful or failed, is followed by one sleep, so
\* that as many sleeps as requests have happened whenever a request is issued.
C18_SleepAfterEveryIteration ==
    /\ [](pc = "FETCHING" => slept = requests)
    /\ [][requests' = requests + 1 => slept' = slept + 1]_vars

(***************************************************************************)
(* get_api_key: the statements checked.                                    *)
(***************************************************************************)
\* A key of exactly the 8-4-4-4-12 format: 36 characters, hexadecimal digits
\* in groups of 8, 4, 4, 4 and 12 with a hyphen between the groups.
WellFormedKey(key) ==
    /\ Len(key) = 8 + 4 + 4 + 4 + 12 + 4
    /\ \A i \in DOMAIN key :
          IF i \in {8 + 1, 8 + 4 + 2, 8 + 4 + 4 + 3, 8 + 4 + 4 + 4 + 4}
          THEN key[i] = "-"
          ELSE key[i] \in HexDigits

\* The key get_api_key works on when it is called: the flag if it is set and
\* not empty, else the environment variable.
AutomatedKey == IF Truthy(flag) THEN flag ELSE env

\* C13: the key get_api_key returns matches the 8-4-4-4-12 hexadecimal
\* pattern, and no page request is issued before such a key is returned.
C13_OnlyWellFormedKeyReturned ==
    /\ apikey # NoKey => WellFormedKey(apikey)
    /\ requests > 0 => apikey # NoKey /\ WellFormedKey(apikey)

\* C14: a key supplied by --apikey or OMNIVORE_API_KEY that the format check
\* rejects stops the run: the prompt is never entered for it, no key is
\* returned and no page is requested.
C14_InvalidAutomatedKeyIsFatal ==
    (Truthy(AutomatedKey) /\ ~has_valid_api_key_format(AutomatedKey)) =>
        /\ pc \in {"KEY", "CRASHED"}
        /\ prompts = 0
        /\ apikey = NoKey
        /\ requests = 0

(***************************************************************************)
(* Fatal errors: the statement checked.                                    *)
(***************************************************************************)
\* The run has ended in a fatal error: an exception left query_all.py, or
\* the handler of main has run.
Fatal == pc = "CRASHED" \/ mpc = "FAILED"

\* The output stage: the loop of query_all.py is left and the file is about
\* to be written, or main is about to call save_csv_file.
OutputStage == pc = "DONE" \/ (mpc = "READ" /\ ppc = "RETURNED")

\* C15: neither output file is created or changed by a step outside the
\* output stage, so a run that fails before it leaves both files as they
\* were; read_json_file is called at most once, and no step follows a fatal
\* error.
C15_NoOutputOnFatalError ==
    /\ [][~OutputStage => (file' = file /\ csv_file' = csv_file)]_vars
    /\ [](reads <= 1)
    /\ [][~Fatal]_vars

\* main has failed in read_json_file on an unreadable input, with the
\* nodes-id-url.csv of an earlier run still in place.
C15_Witness ==
    /\ mpc = "FAILED"
    /\ file = Unreadable
    /\ reads = 1
    /\ ppc = "IDLE"
    /\ csv_file = OldCsv

=============================================================================
